---- MODULE Spec2Model ----
(***************************************************************************)
(* RiskCopilot: the guardrails engine (backend/core/guardrails.py) and the *)
(* sequential agent pipeline (backend/agents/graph.py).                    *)
(*                                                                         *)
(* Text is a sequence of one-character strings, so that substring tests,   *)
(* regular-expression matches, str.replace and str comparison are computed *)
(* character by character, as Python computes them.                        *)
(***************************************************************************)
EXTENDS Integers, Sequences, FiniteSets, TLC

VARIABLES
    pc,                   \* position of RiskCopilotGraph.process
    query,                \* AgentState.query
    enable_guardrails,    \* AgentState.enable_guardrails
    return_traces,        \* AgentState.return_traces
    sanitized_query,      \* AgentState.sanitized_query
    guardrail_violations, \* AgentState.guardrail_violations
    retrieved_context,    \* AgentState.retrieved_context
    citations,            \* AgentState.citations
    response,             \* AgentState.response
    risk_level,           \* AgentState.risk_level
    confidence,           \* AgentState.confidence, in hundredths
    traces,               \* AgentState.traces
    executed,             \* history: the agents whose process() has been called
    gate_risk,            \* history: risk_level as read by the check after Sanitize
    validator_report,     \* history: what validate_output returned in Validate
    initial_risk,         \* history: risk_level of the AgentState handed to process
    external,             \* history: what the generation call and validate_output did
    fn_in,                \* argument of the function under study
    fn_out,               \* its result
    faiss_index,          \* RetrievalService.index: the shared FAISSIndex object, if any
    disk,                 \* the files of index_path: faiss.index, chunks.json, documents.json
    last_call,            \* history: the last FAISSIndex method called, and how it ended
    saved,                \* history: the object the files on disk were saved from
    admin_pc,             \* position of the rebuild running beside a request
    reader_pc,            \* position of the request's FAISSIndex.search
    observed              \* what that search has read of the object so far

vars == <<pc, query, enable_guardrails, return_traces, sanitized_query,
          guardrail_violations, retrieved_context, citations, response,
          risk_level, confidence, traces, executed, gate_risk,
          validator_report, initial_risk, external, fn_in, fn_out,
          faiss_index, disk, last_call, saved, admin_pc, reader_pc, observed>>

\* the index object, its files and the calls on it
index_vars == <<faiss_index, disk, last_call, saved, admin_pc, reader_pc, observed>>

pipeline_vars == <<pc, query, enable_guardrails, return_traces, sanitized_query,
                   guardrail_violations, retrieved_context, citations, response,
                   risk_level, confidence, traces, executed, gate_risk,
                   validator_report, initial_risk, external>>

(***************************************************************************)
(* Characters and str operations                                           *)
(***************************************************************************)
Chars(s) == [i \in 1..Len(s) |-> SubSeq(s, i, i)]

UpperLetters == Chars("ABCDEFGHIJKLMNOPQRSTUVWXYZ")
LowerLetters == Chars("abcdefghijklmnopqrstuvwxyz")
DigitChars == {"0", "1", "2", "3", "4", "5", "6", "7", "8", "9"}
LetterChars == {UpperLetters[i] : i \in 1..26} \cup {LowerLetters[i] : i \in 1..26}
WordChars == LetterChars \cup DigitChars \cup {"_"}
SpaceChars == {" ", "\t", "\n"}

\* Optional[str]: None is a value that is no text
None == <<"None">>

\* the lower-case letter of each upper-case letter
LowerOfUpper ==
    [c \in {UpperLetters[i] : i \in 1..26} |->
        LowerLetters[CHOOSE i \in 1..26 : UpperLetters[i] = c]]

\* str.lower(), one character
LowerChar(c) == IF c \in DOMAIN LowerOfUpper THEN LowerOfUpper[c] ELSE c

\* str.lower()
ToLower(text) == [i \in 1..Len(text) |-> LowerChar(text[i])]

\* text[i:i+len(sub)] == sub, with i counted from 1
OccursAt(text, sub, i) ==
    /\ i >= 1
    /\ i + Len(sub) - 1 <= Len(text)
    /\ SubSeq(text, i, i + Len(sub) - 1) = sub

\* sub in text
Contains(text, sub) == \E i \in 1..(Len(text) + 1) : OccursAt(text, sub, i)

\* any(pattern in text_lower for pattern in patterns)
ContainsAny(text_lower, patterns) ==
    \E k \in 1..Len(patterns) : Contains(text_lower, Chars(patterns[k]))

RECURSIVE ReplaceFrom(_, _, _, _)
\* str.replace(old, new): every non-overlapping occurrence, left to right
ReplaceFrom(text, old, new, i) ==
    IF i > Len(text) THEN <<>>
    ELSE IF Len(old) > 0 /\ OccursAt(text, old, i)
         THEN new \o ReplaceFrom(text, old, new, i + Len(old))
         ELSE <<text[i]>> \o ReplaceFrom(text, old, new, i + 1)

Replace(text, old, new) == ReplaceFrom(text, old, new, 1)

\* the order of the code points of two characters (lower-case letters)
Ord(c) == CHOOSE i \in 1..26 : LowerLetters[i] = c

RECURSIVE StrGreater(_, _)
\* str.__gt__: lexicographic by code point
StrGreater(s, t) ==
    IF s = <<>> THEN FALSE
    ELSE IF t = <<>> THEN TRUE
    ELSE IF Head(s) = Head(t) THEN StrGreater(Tail(s), Tail(t))
    ELSE Ord(Head(s)) > Ord(Head(t))

(***************************************************************************)
(* app/models.py                                                           *)
(***************************************************************************)
LOW == "low"
MEDIUM == "medium"
HIGH == "high"
CRITICAL == "critical"
RiskLevel == {LOW, MEDIUM, HIGH, CRITICAL}

\* the order LOW < MEDIUM < HIGH < CRITICAL the levels are declared in
Rank(level) ==
    CASE level = LOW -> 0
      [] level = MEDIUM -> 1
      [] level = HIGH -> 2
      [] level = CRITICAL -> 3

\* the values GuardrailViolation.type accepts
ViolationTypeLiteral == {"pii", "toxic", "banned_topic", "hallucination"}

\* GuardrailViolation(type=..., severity=..., description=..., detected_content=...)
GuardrailViolation(type, severity, description, detected_content) ==
    [type |-> type, severity |-> severity, description |-> description,
     detected_content |-> detected_content]

\* pydantic validation of a GuardrailViolation: a type outside the Literal raises
ValidationError(v) == v.type \notin ViolationTypeLiteral

\* max(a, b) on RiskLevel(str, Enum) members: b if b > a else a, compared as str
MaxRiskLevel(a, b) == IF StrGreater(Chars(b), Chars(a)) THEN b ELSE a

(***************************************************************************)
(* re: the patterns of GuardrailsEngine.pii_patterns, matched by           *)
(* backtracking with greedy quantifiers, under re.IGNORECASE               *)
(***************************************************************************)
\* one character class repeated min..max times; max = -1 is "no upper limit"
Item(cls, min, max) == [b |-> FALSE, cls |-> cls, min |-> min, max |-> max]
One(cls) == Item(cls, 1, 1)
Opt(cls) == Item(cls, 0, 1)
\* \b
WordBoundary == [b |-> TRUE, cls |-> {}, min |-> 0, max |-> 0]

\* \b at offset pos (pos characters precede it)
AtWordBoundary(text, pos) ==
    LET before == pos >= 1 /\ text[pos] \in WordChars
        after == pos < Len(text) /\ text[pos + 1] \in WordChars
    IN  before # after

\* how many characters a greedy quantifier takes at most at offset pos
GreedyRun(text, pos, item) ==
    LET room == Len(text) - pos
        limit == IF item.max < 0 \/ item.max > room THEN room ELSE item.max
        fits == {n \in 0..limit : \A j \in 1..n : text[pos + j] \in item.cls}
    IN  Cardinality(fits) - 1

RECURSIVE MatchItems(_, _, _, _), Backtrack(_, _, _, _, _)
\* the offset at which items k.. end when matched at offset pos, or -1
MatchItems(items, k, text, pos) ==
    IF k > Len(items) THEN pos
    ELSE IF items[k].b
         THEN IF AtWordBoundary(text, pos)
              THEN MatchItems(items, k + 1, text, pos)
              ELSE -1
         ELSE Backtrack(items, k, text, pos, GreedyRun(text, pos, items[k]))

\* item k taking n characters, then n - 1, ... down to its minimum
Backtrack(items, k, text, pos, n) ==
    IF n < items[k].min THEN -1
    ELSE LET end == MatchItems(items, k + 1, text, pos + n)
         IN  IF end >= 0 THEN end ELSE Backtrack(items, k, text, pos, n - 1)

RECURSIVE MatchAlternatives(_, _, _, _)
\* the alternatives of a pattern, in the order the engine tries them
MatchAlternatives(alts, a, text, pos) ==
    IF a > Len(alts) THEN -1
    ELSE LET end == MatchItems(alts[a], 1, text, pos)
         IN  IF end >= 0 THEN end ELSE MatchAlternatives(alts, a + 1, text, pos)

RECURSIVE FindIter(_, _, _)
\* [m.group() for m in re.finditer(pattern, text, re.IGNORECASE)]
FindIter(alts, text, pos) ==
    IF pos >= Len(text) THEN <<>>
    ELSE LET end == MatchAlternatives(alts, 1, text, pos)
         IN  IF end > pos
             THEN <<SubSeq(text, pos + 1, end)>> \o FindIter(alts, text, end)
             ELSE FindIter(alts, text, pos + 1)

AlnumChars == LetterChars \cup DigitChars
D(n) == Item(DigitChars, n, n)

\* r'\b\d{3}-\d{2}-\d{4}\b'
ssn_pattern ==
    << <<WordBoundary, D(3), One({"-"}), D(2), One({"-"}), D(4), WordBoundary>> >>

\* r'\b\d{4}[\s-]?\d{4}[\s-]?\d{4}[\s-]?\d{4}\b'
credit_card_pattern ==
    LET sep == Opt(SpaceChars \cup {"-"})
    IN  << <<WordBoundary, D(4), sep, D(4), sep, D(4), sep, D(4), WordBoundary>> >>

\* r'\b[A-Za-z0-9._%+-]+@[A-Za-z0-9.-]+\.[A-Z|a-z]{2,}\b'
email_pattern ==
    << <<WordBoundary,
         Item(AlnumChars \cup {".", "_", "%", "+", "-"}, 1, -1),
         One({"@"}),
         Item(AlnumChars \cup {".", "-"}, 1, -1),
         One({"."}),
         Item(LetterChars \cup {"|"}, 2, -1),
         WordBoundary>> >>

\* r'\b(?:\+?1[-.]?)?\(?([0-9]{3})\)?[-.]?([0-9]{3})[-.]?([0-9]{4})\b'
\* the optional group is tried first, then skipped
phone_pattern ==
    LET dot == Opt({"-", "."})
        number == <<Opt({"("}), D(3), Opt({")"}), dot, D(3), dot, D(4), WordBoundary>>
    IN  << <<WordBoundary, Opt({"+"}), One({"1"}), dot>> \o number,
           <<WordBoundary>> \o number >>

\* r'\b[A-Z]{2}\d{2}[A-Z0-9]{4}\d{7}([A-Z0-9]?){0,16}\b'
iban_pattern ==
    << <<WordBoundary, Item(LetterChars, 2, 2), D(2), Item(AlnumChars, 4, 4), D(7),
         Item(AlnumChars, 0, 16), WordBoundary>> >>

\* r'\b[A-Z][0-9]{8}\b'
passport_pattern ==
    << <<WordBoundary, One(LetterChars), D(8), WordBoundary>> >>

\* r'\b[12][0-9]{2}[0-1][0-9][0-9]{8}\b'
french_secu_pattern ==
    << <<WordBoundary, One({"1", "2"}), D(2), One({"0", "1"}), D(1), D(8),
         WordBoundary>> >>

(***************************************************************************)
(* core/guardrails.py: GuardrailsEngine                                    *)
(***************************************************************************)
\* self.pii_patterns, in the order of the dict
pii_patterns ==
    << [pii_type |-> "ssn", pattern |-> ssn_pattern],
       [pii_type |-> "credit_card", pattern |-> credit_card_pattern],
       [pii_type |-> "email", pattern |-> email_pattern],
       [pii_type |-> "phone", pattern |-> phone_pattern],
       [pii_type |-> "iban", pattern |-> iban_pattern],
       [pii_type |-> "passport", pattern |-> passport_pattern],
       [pii_type |-> "french_secu", pattern |-> french_secu_pattern] >>

banned_topics ==
    <<"insider trading", "money laundering", "tax evasion", "market manipulation",
      "ponzi scheme", "pyramid scheme", "terrorism financing">>

toxic_patterns ==
    <<"hate speech", "discrimination", "harassment", "violence", "self-harm">>

injection_patterns ==
    <<"ignore previous instructions", "disregard all rules", "pretend you are",
      "act as if", "bypass safety", "jailbreak">>

hallucination_markers ==
    <<"as an ai language model", "i don't have access to", "i cannot provide",
      "my training data">>

\* matched_text.split('@')[0]
BeforeAt(matched_text) ==
    IF \E i \in 1..Len(matched_text) : matched_text[i] = "@"
    THEN LET first == CHOOSE i \in 1..Len(matched_text) :
                          /\ matched_text[i] = "@"
                          /\ \A j \in 1..(i - 1) : matched_text[j] # "@"
         IN  SubSeq(matched_text, 1, first - 1)
    ELSE matched_text

\* text[:n]
Prefix(text, n) == SubSeq(text, 1, IF Len(text) < n THEN Len(text) ELSE n)

\* '*' * n
Stars(n) == [i \in 1..(IF n < 0 THEN 0 ELSE n) |-> "*"]

\* the redaction check_pii chooses for one match of one type
Redact(pii_type, matched_text) ==
    IF pii_type = "email"
    THEN Prefix(BeforeAt(matched_text), 2) \o Chars("***@***")
    ELSE IF pii_type \in {"ssn", "credit_card", "iban"}
         THEN Prefix(matched_text, 4) \o Stars(Len(matched_text) - 4)
         ELSE Chars("[REDACTED]")

RECURSIVE check_pii_from(_, _)
check_pii_from(text, k) ==
    IF k > Len(pii_patterns) THEN <<>>
    ELSE LET matches == FindIter(pii_patterns[k].pattern, text, 0)
             found == [i \in 1..Len(matches) |->
                          [pii_type |-> pii_patterns[k].pii_type,
                           matched |-> matches[i],
                           redacted |-> Redact(pii_patterns[k].pii_type, matches[i])]]
         IN  found \o check_pii_from(text, k + 1)

\* GuardrailsEngine.check_pii: (type, matched_text, redacted_text) tuples
check_pii(text) == check_pii_from(text, 1)

RECURSIVE check_banned_topics_from(_, _)
check_banned_topics_from(text_lower, k) ==
    IF k > Len(banned_topics) THEN <<>>
    ELSE (IF Contains(text_lower, ToLower(Chars(banned_topics[k])))
          THEN <<banned_topics[k]>> ELSE <<>>)
         \o check_banned_topics_from(text_lower, k + 1)

\* GuardrailsEngine.check_banned_topics
check_banned_topics(text) == check_banned_topics_from(ToLower(text), 1)

\* GuardrailsEngine.check_toxicity
check_toxicity(text) == ContainsAny(ToLower(text), toxic_patterns)

\* GuardrailsEngine.check_prompt_injection
check_prompt_injection(text) == ContainsAny(ToLower(text), injection_patterns)

RECURSIVE ApplyRedactions(_, _, _)
\* for pii_type, matched, redacted in pii_violations:
\*     sanitized = sanitized.replace(matched, redacted)
ApplyRedactions(sanitized, pii_violations, i) ==
    IF i > Len(pii_violations) THEN sanitized
    ELSE ApplyRedactions(
             Replace(sanitized, pii_violations[i].matched, pii_violations[i].redacted),
             pii_violations, i + 1)

\* the violations sanitize_input constructs, in the order it constructs them
SanitizeViolations(text) ==
    LET pii_violations == check_pii(text)
        banned == check_banned_topics(text)
    IN  [i \in 1..Len(pii_violations) |->
            GuardrailViolation("pii", HIGH, <<pii_violations[i].pii_type>>,
                               pii_violations[i].redacted)]
        \o (IF banned # <<>>
            THEN <<GuardrailViolation("banned_topic", MEDIUM, banned, None)>>
            ELSE <<>>)
        \o (IF check_toxicity(text)
            THEN <<GuardrailViolation("toxic", HIGH, <<>>, None)>>
            ELSE <<>>)
        \o (IF check_prompt_injection(text)
            THEN <<GuardrailViolation("prompt_injection", CRITICAL, <<>>, None)>>
            ELSE <<>>)

\* GuardrailsEngine.sanitize_input: (sanitized_text, violations), or the
\* ValidationError of the first violation the model class rejects
sanitize_input(text) ==
    LET violations == SanitizeViolations(text)
    IN  IF \E i \in 1..Len(violations) : ValidationError(violations[i])
        THEN [raised |-> TRUE, sanitized |-> None, violations |-> <<>>]
        ELSE [raised |-> FALSE,
              sanitized |-> ApplyRedactions(text, check_pii(text), 1),
              violations |-> violations]

\* GuardrailsEngine.validate_output
validate_output(text) ==
    (IF check_pii(text) # <<>>
     THEN <<GuardrailViolation("pii", CRITICAL, <<>>, Chars("[PII DETECTED IN OUTPUT]"))>>
     ELSE <<>>)
    \o (IF ContainsAny(ToLower(text), hallucination_markers)
        THEN <<GuardrailViolation("hallucination", MEDIUM, <<>>, None)>>
        ELSE <<>>)

RECURSIVE MaxOfSeverities(_, _)
MaxOfSeverities(violations, i) ==
    IF i = Len(violations) THEN violations[i].severity
    ELSE MaxRiskLevel(violations[i].severity, MaxOfSeverities(violations, i + 1))

\* calculate_risk_level written as max(severities) on the str-valued enum
calculate_risk_level_by_max(violations) ==
    IF violations = <<>> THEN LOW ELSE MaxOfSeverities(violations, 1)

\* GuardrailsEngine.calculate_risk_level
calculate_risk_level(violations) ==
    LET severities == {violations[i].severity : i \in 1..Len(violations)}
    IN  IF violations = <<>> THEN LOW
        ELSE IF CRITICAL \in severities THEN CRITICAL
        ELSE IF HIGH \in severities THEN HIGH
        ELSE IF MEDIUM \in severities THEN MEDIUM
        ELSE LOW

(***************************************************************************)
(* core/faiss_index.py: FAISSIndex, and core/retrieval_service.py          *)
(*                                                                         *)
(* A FAISSIndex object is the record of its fields index, chunks and       *)
(* documents.  A stored vector is written as its inner product with the    *)
(* embedding of the query at hand, in hundredths: this is all that search  *)
(* reads of it.  Inner products of float32 unit vectors can round to just  *)
(* above 1.0, which is written 101.                                        *)
(***************************************************************************)
\* score_threshold: float = 0.5
ScoreThresholdDefault == 50
\* min_score: float = 0.6
MinCitationScore == 60
\* relevance_score: float = Field(ge=0.0, le=1.0)
RelevanceScoreMin == 0
RelevanceScoreMax == 100
\* k: int = 5
KDefault == 5
SearchThresholdDefault == 50
\* max_context_length: int = 3000
MaxContextLengthDefault == 3000
\* excerpt=doc['content'][:200] + "..."
ExcerptLength == 200

\* d.get(key)
Get(d, key) == IF key \in DOMAIN d THEN d[key] ELSE None

\* min(a, b)
Min(a, b) == IF a < b THEN a ELSE b

\* None where an object is expected
NoneObject == [none |-> TRUE]

\* a faiss.IndexFlatIP holding the vectors
IndexFlatIP(vectors) == [vectors |-> vectors]

\* a dict without keys
EmptyDict == [key \in {} |-> <<>>]

\* a FAISSIndex object
FAISSIndex(index, chunks, documents) ==
    [index |-> index, chunks |-> chunks, documents |-> documents]

\* FAISSIndex.__init__: self.index = None, self.chunks = [], self.documents = {}
NewFAISSIndex == FAISSIndex(NoneObject, <<>>, EmptyDict)

\* self.index.ntotal
Ntotal(index) == Len(index.vectors)

RECURSIVE IndexFlatIPSearch(_, _, _)
\* faiss.IndexFlatIP.search: the positions of the n greatest inner products,
\* greatest first
IndexFlatIPSearch(vectors, n, taken) ==
    IF n = 0 THEN <<>>
    ELSE LET left == (1..Len(vectors)) \ taken
             best == CHOOSE i \in left :
                         \A j \in left : \/ vectors[i] > vectors[j]
                                         \/ vectors[i] = vectors[j] /\ i <= j
         IN  <<best>> \o IndexFlatIPSearch(vectors, n - 1, taken \cup {best})

\* the result FAISSIndex.search builds for one hit
SearchResult(chunk, score, documents) ==
    LET doc_id == chunk.metadata.id
        doc_metadata == IF doc_id \in DOMAIN documents THEN documents[doc_id]
                        ELSE EmptyDict
    IN  [content |-> chunk.content,
         score |-> score,
         metadata |-> [chunk_id |-> Get(chunk.metadata, "chunk_id"),
                       document_id |-> doc_id,
                       document_name |-> IF "name" \in DOMAIN doc_metadata
                                         THEN doc_metadata.name
                                         ELSE Chars("Unknown"),
                       chunk_index |-> Get(chunk.metadata, "chunk_index")]]

\* FAISSIndex.search without the score_threshold test of lines 169-170
search_without_threshold(self, k, score_threshold) ==
    IF self.index = NoneObject \/ Ntotal(self.index) = 0
    THEN [raised |-> FALSE, results |-> <<>>]
    ELSE LET vectors == self.index.vectors
             kept == IndexFlatIPSearch(vectors, Min(k, Ntotal(self.index)), {})
             broken == \E n \in 1..Len(kept) :
                          \/ kept[n] > Len(self.chunks)
                          \/ "id" \notin DOMAIN self.chunks[kept[n]].metadata
         IN  IF broken
             THEN [raised |-> TRUE, results |-> <<>>]
             ELSE [raised |-> FALSE,
                   results |-> [n \in 1..Len(kept) |->
                                   SearchResult(self.chunks[kept[n]], vectors[kept[n]],
                                                self.documents)]]

\* FAISSIndex.search: the results, or the IndexError / KeyError of the first hit
\* above the threshold that has no chunk or whose chunk has no document id
search(self, k, score_threshold) ==
    IF self.index = NoneObject \/ Ntotal(self.index) = 0
    THEN [raised |-> FALSE, results |-> <<>>]
    ELSE LET vectors == self.index.vectors
             indices == IndexFlatIPSearch(vectors, Min(k, Ntotal(self.index)), {})
             kept == SelectSeq(indices, LAMBDA idx : ~(vectors[idx] < score_threshold))
             broken == \E n \in 1..Len(kept) :
                          \/ kept[n] > Len(self.chunks)
                          \/ "id" \notin DOMAIN self.chunks[kept[n]].metadata
         IN  IF broken
             THEN [raised |-> TRUE, results |-> <<>>]
             ELSE [raised |-> FALSE,
                   results |-> [n \in 1..Len(kept) |->
                                   SearchResult(self.chunks[kept[n]], vectors[kept[n]],
                                                self.documents)]]

\* RetrievalService.retrieve with filter_doc = None; service_index is
\* RetrievalService.index, None or a FAISSIndex object
retrieve(service_index, k, score_threshold) ==
    IF service_index = NoneObject THEN <<>>
    ELSE LET found == search(service_index, k, score_threshold)
         IN  IF found.raised THEN <<>> ELSE found.results

\* doc['content'][:200] + "..." if len(doc['content']) > 200 else doc['content']
Excerpt(content) ==
    IF Len(content) > ExcerptLength
    THEN Prefix(content, ExcerptLength) \o Chars("...")
    ELSE content

\* Citation(...) of one retrieved document
Citation(doc) ==
    [source_id |-> doc.metadata.document_id,
     document_name |-> doc.metadata.document_name,
     page_number |-> doc.metadata.chunk_index,
     relevance_score |-> doc.score,
     excerpt |-> Excerpt(doc.content)]

\* pydantic validation of a Citation: relevance_score outside [0, 1] raises
CitationValidationError(citation) ==
    \/ citation.relevance_score < RelevanceScoreMin
    \/ citation.relevance_score > RelevanceScoreMax

RECURSIVE CitedDocs(_, _, _, _)
\* the documents generate_citations builds a Citation for: score >= min_score,
\* first occurrence of each chunk_id
CitedDocs(retrieved_docs, min_score, seen_chunks, i) ==
    IF i > Len(retrieved_docs) THEN <<>>
    ELSE LET doc == retrieved_docs[i]
         IN  IF doc.score < min_score \/ doc.metadata.chunk_id \in seen_chunks
             THEN CitedDocs(retrieved_docs, min_score, seen_chunks, i + 1)
             ELSE <<doc>> \o CitedDocs(retrieved_docs, min_score,
                                       seen_chunks \cup {doc.metadata.chunk_id}, i + 1)

\* generate_citations without the seen_chunks test of lines 126-128
generate_citations_with_repeats(retrieved_docs, min_score) ==
    LET cited == SelectSeq(retrieved_docs, LAMBDA doc : ~(doc.score < min_score))
        built == [n \in 1..Len(cited) |-> Citation(cited[n])]
    IN  IF \E n \in 1..Len(built) : CitationValidationError(built[n])
        THEN [raised |-> TRUE, citations |-> <<>>]
        ELSE [raised |-> FALSE, citations |-> built]

\* RetrievalService.generate_citations: the citations, or the ValidationError
\* of the first one the model class rejects
generate_citations(retrieved_docs, min_score) ==
    LET cited == CitedDocs(retrieved_docs, min_score, {}, 1)
        built == [n \in 1..Len(cited) |-> Citation(cited[n])]
    IN  IF \E n \in 1..Len(built) : CitationValidationError(built[n])
        THEN [raised |-> TRUE, citations |-> <<>>]
        ELSE [raised |-> FALSE, citations |-> built]

\* f"[Source: {doc['metadata']['document_name']}]\n{doc['content']}\n"
DocText(doc) ==
    Chars("[Source: ") \o doc.metadata.document_name \o Chars("]\n")
    \o doc.content \o Chars("\n")

RECURSIVE UsedDocs(_, _, _, _)
\* the loop of get_context_for_llm: the documents taken until the first one
\* that does not fit
UsedDocs(retrieved_docs, max_context_length, total_length, i) ==
    IF i > Len(retrieved_docs) THEN <<>>
    ELSE LET doc_length == Len(DocText(retrieved_docs[i]))
         IN  IF total_length + doc_length > max_context_length
             THEN <<>>
             ELSE <<retrieved_docs[i]>>
                  \o UsedDocs(retrieved_docs, max_context_length,
                              total_length + doc_length, i + 1)

RECURSIVE JoinParts(_)
\* "\n---\n".join(context_parts)
JoinParts(context_parts) ==
    IF context_parts = <<>> THEN <<>>
    ELSE IF Len(context_parts) = 1 THEN context_parts[1]
    ELSE context_parts[1] \o Chars("\n---\n") \o JoinParts(Tail(context_parts))

\* the part of get_context_for_llm after the retrieval
PackContext(retrieved_docs, max_context_length) ==
    IF retrieved_docs = <<>>
    THEN [raised |-> FALSE, context |-> <<>>, citations |-> <<>>, sources |-> <<>>]
    ELSE LET used_docs == UsedDocs(retrieved_docs, max_context_length, 0, 1)
             context == JoinParts([n \in 1..Len(used_docs) |-> DocText(used_docs[n])])
             cited == generate_citations(used_docs, MinCitationScore)
         IN  IF cited.raised
             THEN [raised |-> TRUE, context |-> <<>>, citations |-> <<>>,
                   sources |-> <<>>]
             ELSE [raised |-> FALSE, context |-> context,
                   citations |-> cited.citations,
                   sources |-> [n \in 1..Len(used_docs) |->
                                   used_docs[n].metadata.document_name]]

\* RetrievalService.get_context_for_llm: the result, or raised when an
\* exception leaves it
get_context_for_llm(service_index, k, max_context_length) ==
    PackContext(retrieve(service_index, k, ScoreThresholdDefault), max_context_length)

\* a file of index_path that does not exist
Absent == [state |-> "absent"]
\* a file whose content cannot be read back
Malformed == [state |-> "malformed"]
\* faiss.write_index: the stored vectors, in order
WriteIndex(index) == [state |-> "written", format |-> "faiss", value |-> index]
\* json.dump of lists and dicts of str, int and None values
JsonDump(value) == [state |-> "written", format |-> "json", value |-> value]
\* whether faiss.read_index raises on the file
ReadIndexRaises(file) == file.state # "written" \/ file.format # "faiss"
\* whether json.load raises on the file
JsonLoadRaises(file) == file.state # "written" \/ file.format # "json"
\* what faiss.read_index and json.load give back
ReadBack(file) == file.value

\* the directory index_path
Disk(index_file, chunks_file, documents_file) ==
    [index |-> index_file, chunks |-> chunks_file, documents |-> documents_file]

EmptyDisk == Disk(Absent, Absent, Absent)

\* no FAISSIndex method has been called
NoCall == [op |-> "none", status |-> "none", calls |-> 0]

\* no FAISSIndex method is running and none has run
NoIndexCall ==
    /\ disk = EmptyDisk
    /\ last_call = NoCall
    /\ saved = NoneObject
    /\ admin_pc = "idle"
    /\ reader_pc = "idle"
    /\ observed = NoneObject

\* the document metadata of processed policy files
SampleDocuments ==
    [id \in {"d1"} |-> [name |-> Chars("a.md")]]

\* a chunk as document_processor builds it
PolicyChunk ==
    [content |-> Chars("Rule."),
     metadata |-> [id |-> "d1", chunk_id |-> "d1_chunk_0", chunk_index |-> 0]]

\* chunks: a well-formed one, one of a document that is missing from the
\* document metadata, and one that lacks the document id
SampleChunks ==
    {PolicyChunk,
     [content |-> <<>>,
      metadata |-> [id |-> "d2", chunk_id |-> "d2_chunk_0", chunk_index |-> 0]],
     [content |-> Chars("Rule."),
      metadata |-> [chunk_id |-> "d1_chunk_1", chunk_index |-> 1]]}

\* below the retrieval threshold, between the two thresholds, above the
\* citation threshold, and just above 1.0
SampleScores == {30, 55, 70, 101}

\* most vectors of an index
MaxVectors == 2

\* the FAISSIndex objects with n vectors and n or n - 1 chunks
IndexesOfSize(n) ==
    {FAISSIndex(IndexFlatIP(vectors), chunks, SampleDocuments) :
        vectors \in [1..n -> SampleScores],
        chunks \in UNION {[1..m -> SampleChunks] : m \in {n - 1, n} \cap Nat}}

\* what RetrievalService.index can be: None or a FAISSIndex object, loaded or not
ServiceIndexes ==
    {NoneObject, NewFAISSIndex} \cup UNION {IndexesOfSize(n) : n \in 0..MaxVectors}

(***************************************************************************)
(* agents/graph.py: the requests the pipeline is run on                    *)
(***************************************************************************)
\* the longest query, in words
MaxQueryWords == 2

\* the words a query is made of
QueryWords ==
    {"ignore previous instructions", "123-45-6789", "compliance", "audit",
     "insider trading", "violence", "Hi"}

RECURSIVE JoinWords(_)
\* ' '.join(words)
JoinWords(words) ==
    IF words = <<>> THEN <<>>
    ELSE IF Len(words) = 1 THEN Chars(words[1])
    ELSE Chars(words[1]) \o <<" ">> \o JoinWords(Tail(words))

Queries ==
    UNION {{JoinWords(ws) : ws \in [1..n -> QueryWords]} : n \in 1..MaxQueryWords}

\* confidence values, in hundredths
ConfidenceDefault == 0
ConfidenceWithContext == 85
ConfidenceNoContext == 30
ConfidenceRefusal == 100

RefusalText == Chars("Your request contains content that violates our safety guidelines.")
ApologyText ==
    Chars("I apologize, but I encountered an error processing your request. Please try again.")
BlockedText ==
    Chars("I cannot provide this response as it may contain sensitive information.")

\* bool(x) of an Optional[str]
Truthy(x) == x # None /\ x # <<>>

\* state.sanitized_query or state.query
QueryForAgents == IF Truthy(sanitized_query) THEN sanitized_query ELSE query

\* _add_trace without the test of state.return_traces
AddTraceAlways(agent_name, status) ==
    Append(traces, [agent_name |-> agent_name, status |-> status])

\* Agent._add_trace
AddTrace(agent_name, status) ==
    IF return_traces
    THEN Append(traces, [agent_name |-> agent_name, status |-> status])
    ELSE traces

\* the index the retrieval service of a request holds: none, one without
\* vectors, or one chunk of a policy whose score is one of the sample scores
PipelineIndexes ==
    {NoneObject}
    \cup IndexesOfSize(0)
    \cup {FAISSIndex(IndexFlatIP(<<score>>), <<PolicyChunk>>, SampleDocuments) :
             score \in SampleScores}

\* what the generation capability answers: an exception, None (a completion
\* without content), or a text; one text repeats the query it was given
GenerationOutcomes(q) ==
    {[raised |-> TRUE, text |-> None]}
    \cup {[raised |-> FALSE, text |-> t] :
            t \in {None,
                   <<>>,
                   Chars("Models are validated yearly."),
                   Chars("The card is 4111 1111 1111 1111."),
                   Chars("I cannot provide details."),
                   Chars("You asked: ") \o q}}

\* sanitize_input, tabulated over the queries
sanitize_input_of == [text \in Queries |-> sanitize_input(text)]

\* the queries the agents after Sanitize can be given: raw or sanitized
AgentQueries ==
    Queries \cup ({sanitize_input_of[q].sanitized : q \in Queries} \ {None})

\* the texts ValidatorAgent can find in state.response
PossibleResponses ==
    {ApologyText}
    \cup (UNION {{outcome.text : outcome \in GenerationOutcomes(q)} : q \in AgentQueries}
          \ {None})

\* validate_output, tabulated over the texts it can be called on
validate_output_of == [text \in PossibleResponses |-> validate_output(text)]

high_risk_keywords == <<"compliance", "violation", "breach", "penalty", "regulatory">>
medium_risk_keywords == <<"validation", "audit", "review", "assessment">>

(***************************************************************************)
(* agents/graph.py: AgentState and the agents                              *)
(***************************************************************************)
\* neither the generation capability nor validate_output has been called
NoExternal == [generation |-> <<>>, validation |-> <<>>]

Init ==
    /\ pc = "sanitize"
    /\ query \in Queries
    /\ enable_guardrails \in BOOLEAN
    /\ return_traces \in BOOLEAN
    /\ sanitized_query = None
    /\ guardrail_violations = <<>>
    /\ retrieved_context = None
    /\ citations = <<>>
    /\ response = None
    /\ risk_level \in RiskLevel
    /\ confidence = ConfidenceDefault
    /\ traces = <<>>
    /\ executed = <<>>
    /\ gate_risk = None
    /\ validator_report = <<>>
    /\ initial_risk = risk_level
    /\ external = NoExternal
    /\ fn_in = <<>>
    /\ fn_out = [called |-> FALSE]
    /\ faiss_index \in PipelineIndexes
    /\ NoIndexCall

\* SanitizerAgent.process
Sanitize ==
    /\ pc = "sanitize"
    /\ IF enable_guardrails
       THEN \E result \in {sanitize_input_of[query]} :
                IF result.raised
                THEN /\ sanitized_query' = query
                     /\ UNCHANGED <<guardrail_violations, risk_level, traces>>
                ELSE /\ sanitized_query' = result.sanitized
                     /\ guardrail_violations' = guardrail_violations \o result.violations
                     /\ risk_level' = calculate_risk_level(result.violations)
                     /\ traces' = AddTrace("sanitizer", "success")
       ELSE /\ sanitized_query' = query
            /\ traces' = AddTrace("sanitizer", "success")
            /\ UNCHANGED <<guardrail_violations, risk_level>>
    /\ executed' = Append(executed, "sanitizer")
    /\ gate_risk' = risk_level'
    /\ pc' = "gate"
    /\ UNCHANGED <<query, enable_guardrails, return_traces, retrieved_context, citations,
                   response, confidence, validator_report, initial_risk,
                   fn_in, fn_out, index_vars, external>>

\* ShortCircuit with the refusal set and the remaining stages still run
ShortCircuitKeepsGoing ==
    /\ pc = "gate"
    /\ ~(risk_level # CRITICAL)
    /\ response' = RefusalText
    /\ confidence' = ConfidenceRefusal
    /\ pc' = "evaluate"
    /\ UNCHANGED <<query, enable_guardrails, return_traces, sanitized_query,
                   guardrail_violations, retrieved_context, citations, risk_level, traces,
                   executed, gate_risk, validator_report, initial_risk, fn_in, fn_out, index_vars, external>>

\* ShortCircuit returning the refusal at once, without the audit
ShortCircuitReturns ==
    /\ pc = "gate"
    /\ ~(risk_level # CRITICAL)
    /\ response' = RefusalText
    /\ confidence' = ConfidenceRefusal
    /\ pc' = "done"
    /\ UNCHANGED <<query, enable_guardrails, return_traces, sanitized_query,
                   guardrail_violations, retrieved_context, citations, risk_level, traces,
                   executed, gate_risk, validator_report, initial_risk, fn_in, fn_out, index_vars, external>>

\* RiskCopilotGraph.process, the else branch of the check after Sanitize
ShortCircuit ==
    /\ pc = "gate"
    /\ ~(risk_level # CRITICAL)
    /\ response' = RefusalText
    /\ confidence' = ConfidenceRefusal
    /\ pc' = "audit"
    /\ UNCHANGED <<query, enable_guardrails, return_traces, sanitized_query,
                   guardrail_violations, retrieved_context, citations, risk_level, traces,
                   executed, gate_risk, validator_report, initial_risk,
                   fn_in, fn_out, index_vars, external>>

\* get_context_for_llm(query, k=5), tabulated over the indexes the service can hold
get_context_for_llm_of ==
    [service_index \in PipelineIndexes |->
        get_context_for_llm(service_index, KDefault, MaxContextLengthDefault)]

\* RetrieverAgent.process with the confidence of lines 129-132 set to 0.85 in
\* both branches
RetrieveAlwaysConfident ==
    /\ pc = "gate"
    /\ risk_level # CRITICAL
    /\ \E rag_result \in {get_context_for_llm_of[faiss_index]} :
          IF rag_result.raised
          THEN /\ retrieved_context' = <<>>
               /\ UNCHANGED <<citations, confidence, traces>>
          ELSE /\ retrieved_context' = rag_result.context
               /\ citations' = rag_result.citations
               /\ confidence' = ConfidenceWithContext
               /\ traces' = AddTrace("retriever", "success")
    /\ executed' = Append(executed, "retriever")
    /\ pc' = "evaluate"
    /\ UNCHANGED <<query, enable_guardrails, return_traces, sanitized_query,
                   guardrail_violations, response, risk_level, gate_risk,
                   validator_report, initial_risk, fn_in, fn_out, index_vars, external>>

\* RetrieverAgent.process, entered when the check after Sanitize passes
Retrieve ==
    /\ pc = "gate"
    /\ risk_level # CRITICAL
    /\ \E rag_result \in {get_context_for_llm_of[faiss_index]} :
          IF rag_result.raised
          THEN /\ retrieved_context' = <<>>
               /\ UNCHANGED <<citations, confidence, traces>>
          ELSE /\ retrieved_context' = rag_result.context
               /\ citations' = rag_result.citations
               /\ confidence' = IF Truthy(rag_result.context)
                                THEN ConfidenceWithContext
                                ELSE ConfidenceNoContext
               /\ traces' = AddTrace("retriever", "success")
    /\ executed' = Append(executed, "retriever")
    /\ pc' = "evaluate"
    /\ UNCHANGED <<query, enable_guardrails, return_traces, sanitized_query,
                   guardrail_violations, response, risk_level, gate_risk,
                   validator_report, initial_risk, fn_in, fn_out, index_vars, external>>

\* the risk level RiskEvaluatorAgent.process leaves for a query and an entering level
EvaluatedRisk(q, level) ==
    LET query_lower == ToLower(q)
        after_high == IF ContainsAny(query_lower, high_risk_keywords)
                      THEN MaxRiskLevel(level, HIGH)
                      ELSE level
    IN  IF ContainsAny(query_lower, medium_risk_keywords)
        THEN MaxRiskLevel(after_high, MEDIUM)
        ELSE after_high

\* EvaluatedRisk, tabulated over the queries and the levels
EvaluatedRiskOf ==
    [q \in Queries |-> [level \in RiskLevel |-> EvaluatedRisk(q, level)]]

\* RiskEvaluatorAgent.process
Evaluate ==
    /\ pc = "evaluate"
    /\ risk_level' = EvaluatedRiskOf[query][risk_level]
    /\ traces' = AddTrace("risk_evaluator", "success")
    /\ executed' = Append(executed, "risk_evaluator")
    /\ pc' = "generate"
    /\ UNCHANGED <<query, enable_guardrails, return_traces, sanitized_query,
                   guardrail_violations, retrieved_context, citations, response,
                   confidence, gate_risk, validator_report, initial_risk,
                   fn_in, fn_out, index_vars, external>>

\* Generate with a None answer kept as the response
GenerateKeepsNone ==
    /\ pc = "generate"
    /\ \E outcome \in GenerationOutcomes(QueryForAgents) :
          /\ external' = [external EXCEPT !.generation = Append(@, outcome)]
          /\ IF outcome.raised
             THEN /\ response' = ApologyText
                  /\ UNCHANGED traces
             ELSE /\ response' = outcome.text
                  /\ traces' = AddTrace("generator", "success")
    /\ executed' = Append(executed, "generator")
    /\ pc' = "validate"
    /\ UNCHANGED <<query, enable_guardrails, return_traces, sanitized_query,
                   guardrail_violations, retrieved_context, citations, risk_level,
                   confidence, gate_risk, validator_report, initial_risk, fn_in, fn_out, index_vars>>

\* GeneratorAgent.process whose handler logs the failure and leaves the response
GenerateWithoutApology ==
    /\ pc = "generate"
    /\ \E outcome \in GenerationOutcomes(QueryForAgents) :
          /\ external' = [external EXCEPT !.generation = Append(@, outcome)]
          /\ IF outcome.raised
             THEN UNCHANGED <<response, traces>>
             ELSE IF outcome.text = None
                  THEN /\ response' = ApologyText
                       /\ UNCHANGED traces
                  ELSE /\ response' = outcome.text
                       /\ traces' = AddTrace("generator", "success")
    /\ executed' = Append(executed, "generator")
    /\ pc' = "validate"
    /\ UNCHANGED <<query, enable_guardrails, return_traces, sanitized_query,
                   guardrail_violations, retrieved_context, citations, risk_level,
                   confidence, gate_risk, validator_report, initial_risk,
                   fn_in, fn_out, index_vars>>

\* GeneratorAgent.process: a None answer is assigned and then fails len(response),
\* which the handler turns into the apology like any other failure
Generate ==
    /\ pc = "generate"
    /\ \E outcome \in GenerationOutcomes(QueryForAgents) :
          /\ external' = [external EXCEPT !.generation = Append(@, outcome)]
          /\ IF outcome.raised \/ outcome.text = None
             THEN /\ response' = ApologyText
                  /\ UNCHANGED traces
             ELSE /\ response' = outcome.text
                  /\ traces' = AddTrace("generator", "success")
    /\ executed' = Append(executed, "generator")
    /\ pc' = "validate"
    /\ UNCHANGED <<query, enable_guardrails, return_traces, sanitized_query,
                   guardrail_violations, retrieved_context, citations, risk_level,
                   confidence, gate_risk, validator_report, initial_risk,
                   fn_in, fn_out, index_vars>>

\* Validate blocking the response without raising the risk level
ValidateKeepsRisk ==
    /\ pc = "validate"
    /\ IF enable_guardrails /\ Truthy(response)
       THEN \E failed \in BOOLEAN :
               IF failed
               THEN /\ external' = [external EXCEPT !.validation = Append(@, "raised")]
                    /\ UNCHANGED <<response, guardrail_violations, traces, validator_report>>
               ELSE \E violations \in {validate_output_of[response]} :
                        /\ validator_report' = violations
                        /\ external' = [external EXCEPT
                                            !.validation = Append(@, "returned")]
                        /\ traces' = AddTrace("validator", "success")
                        /\ IF \E i \in 1..Len(violations) :
                                  violations[i].severity = CRITICAL
                           THEN /\ response' = BlockedText
                                /\ guardrail_violations' =
                                       guardrail_violations \o violations
                           ELSE UNCHANGED <<response, guardrail_violations>>
       ELSE /\ traces' = AddTrace("validator", "success")
            /\ UNCHANGED <<external, response, guardrail_violations, validator_report>>
    /\ executed' = Append(executed, "validator")
    /\ pc' = "audit"
    /\ UNCHANGED <<query, enable_guardrails, return_traces, sanitized_query,
                   retrieved_context, citations, confidence, gate_risk, risk_level,
                   initial_risk, fn_in, fn_out, index_vars>>

\* Validate raising the risk level to CRITICAL without replacing the response
ValidateKeepsResponse ==
    /\ pc = "validate"
    /\ IF enable_guardrails /\ Truthy(response)
       THEN \E failed \in BOOLEAN :
               IF failed
               THEN /\ external' = [external EXCEPT !.validation = Append(@, "raised")]
                    /\ UNCHANGED <<response, guardrail_violations, risk_level, traces,
                                validator_report>>
               ELSE \E violations \in {validate_output_of[response]} :
                        /\ validator_report' = violations
                        /\ external' = [external EXCEPT
                                            !.validation = Append(@, "returned")]
                        /\ traces' = AddTrace("validator", "success")
                        /\ IF \E i \in 1..Len(violations) :
                                  violations[i].severity = CRITICAL
                           THEN /\ guardrail_violations' =
                                       guardrail_violations \o violations
                                /\ risk_level' = CRITICAL
                                /\ UNCHANGED response
                           ELSE UNCHANGED <<response, guardrail_violations, risk_level>>
       ELSE /\ traces' = AddTrace("validator", "success")
            /\ UNCHANGED <<external, response, guardrail_violations, risk_level, validator_report>>
    /\ executed' = Append(executed, "validator")
    /\ pc' = "audit"
    /\ UNCHANGED <<query, enable_guardrails, return_traces, sanitized_query,
                   retrieved_context, citations, confidence, gate_risk, initial_risk,
                   fn_in, fn_out, index_vars>>

\* ValidatorAgent.process
Validate ==
    /\ pc = "validate"
    /\ IF enable_guardrails /\ Truthy(response)
       THEN \E failed \in BOOLEAN :
               IF failed
               THEN /\ external' = [external EXCEPT !.validation = Append(@, "raised")]
                    /\ UNCHANGED <<response, guardrail_violations, risk_level, traces,
                                validator_report>>
               ELSE \E violations \in {validate_output_of[response]} :
                        /\ validator_report' = violations
                        /\ external' = [external EXCEPT
                                            !.validation = Append(@, "returned")]
                        /\ traces' = AddTrace("validator", "success")
                        /\ IF \E i \in 1..Len(violations) :
                                  violations[i].severity = CRITICAL
                           THEN /\ response' = BlockedText
                                /\ guardrail_violations' =
                                       guardrail_violations \o violations
                                /\ risk_level' = CRITICAL
                           ELSE UNCHANGED <<response, guardrail_violations, risk_level>>
       ELSE /\ traces' = AddTrace("validator", "success")
            /\ UNCHANGED <<external, response, guardrail_violations, risk_level, validator_report>>
    /\ executed' = Append(executed, "validator")
    /\ pc' = "audit"
    /\ UNCHANGED <<query, enable_guardrails, return_traces, sanitized_query,
                   retrieved_context, citations, confidence, gate_risk, initial_risk,
                   fn_in, fn_out, index_vars>>

\* AuditAgent.process: the audit entry or the log sink may fail
Audit ==
    /\ pc = "audit"
    /\ \E failed \in BOOLEAN :
          traces' = IF failed THEN traces ELSE AddTrace("audit", "success")
    /\ executed' = Append(executed, "audit")
    /\ pc' = "done"
    /\ UNCHANGED <<query, enable_guardrails, return_traces, sanitized_query,
                   guardrail_violations, retrieved_context, citations, response,
                   risk_level, confidence, gate_risk, validator_report, initial_risk,
                   fn_in, fn_out, index_vars, external>>

\* RiskCopilotGraph.process
Next ==
    \/ Sanitize
    \/ ShortCircuit
    \/ Retrieve
    \/ Evaluate
    \/ Generate
    \/ Validate
    \/ Audit

Spec == Init /\ [][Next]_vars

\* process() is sequential code: it keeps taking its next step
FairSpec == Spec /\ WF_vars(Next)

(***************************************************************************)
(* Properties of the pipeline                                              *)
(***************************************************************************)
HasViolation(violations, type, severity) ==
    \E i \in 1..Len(violations) :
        violations[i].type = type /\ violations[i].severity = severity

HasCritical(violations) ==
    \E i \in 1..Len(violations) : violations[i].severity = CRITICAL

\* suffix is what list ends with
EndsWith(list, suffix) ==
    /\ Len(suffix) <= Len(list)
    /\ SubSeq(list, Len(list) - Len(suffix) + 1, Len(list)) = suffix

AllStages ==
    <<"sanitizer", "retriever", "risk_evaluator", "generator", "validator", "audit">>

\* process() returns
Returns == <>(pc = "done")

\* C1: Scenario A. A fresh request with guardrails enabled whose query contains
\* a prompt-injection phrase ends with a prompt_injection/CRITICAL violation
\* recorded, CRITICAL read by the check after Sanitize, only Sanitize and Audit
\* executed, the safety refusal as the answer and confidence 1.0.
C1_ScenarioA ==
    (/\ pc = "done"
     /\ initial_risk = LOW
     /\ enable_guardrails
     /\ check_prompt_injection(query))
    => /\ HasViolation(guardrail_violations, "prompt_injection", CRITICAL)
       /\ gate_risk = CRITICAL
       /\ executed = <<"sanitizer", "audit">>
       /\ response = RefusalText
       /\ confidence = ConfidenceRefusal

\* C2: after Sanitize no stage lowers the risk level in the order
\* LOW < MEDIUM < HIGH < CRITICAL.
C2_RiskNeverDecreases ==
    [][pc # "sanitize" => Rank(risk_level') >= Rank(risk_level)]_vars

\* C3: Scenario D. Evaluate on a query with a high-risk keyword leaves the risk
\* level at HIGH or above, whatever level it entered with.
C3_HighKeywordEscalates ==
    [][(pc = "evaluate" /\ ContainsAny(ToLower(query), high_risk_keywords))
          => Rank(risk_level') >= Rank(HIGH)]_vars

\* C4: the short-circuit rule. When the check after Sanitize reads CRITICAL, no
\* stage runs between Sanitize and Audit and the response is the refusal with
\* confidence 1.0; otherwise Retrieve, Evaluate, Generate and Validate run in
\* this order before Audit.
C4_ShortCircuitRule ==
    /\ (pc \in {"audit", "done"} /\ gate_risk = CRITICAL)
          => /\ response = RefusalText
             /\ confidence = ConfidenceRefusal
             /\ executed = IF pc = "audit" THEN <<"sanitizer">>
                                           ELSE <<"sanitizer", "audit">>
    /\ (pc \in {"audit", "done"} /\ gate_risk # CRITICAL)
          => executed = IF pc = "audit" THEN SubSeq(AllStages, 1, 5) ELSE AllStages

C4_Witness ==
    /\ pc = "done"
    /\ gate_risk = CRITICAL
    /\ executed = <<"sanitizer", "audit">>
    /\ response = RefusalText

\* C5: Scenario E. Once validate_output has reported a CRITICAL violation on the
\* generated response, the response is the "cannot provide" text, the risk
\* level is CRITICAL and the reported violations end the request's violations.
C5_ValidateBlocks ==
    HasCritical(validator_report)
    => /\ enable_guardrails
       /\ response = BlockedText
       /\ risk_level = CRITICAL
       /\ EndsWith(guardrail_violations, validator_report)

C5_Witness ==
    /\ pc = "audit"
    /\ HasViolation(validator_report, "pii", CRITICAL)
    /\ response = BlockedText
    /\ risk_level = CRITICAL

\* C6: Audit is executed exactly once, as the last stage, on every path and
\* whichever earlier stages failed.
C6_AuditOnceAndLast ==
    /\ Returns
    /\ [](pc = "done"
            => /\ executed # <<>>
               /\ executed[Len(executed)] = "audit"
               /\ Cardinality({i \in 1..Len(executed) : executed[i] = "audit"}) = 1)
    /\ [](pc # "done" => \A i \in 1..Len(executed) : executed[i] # "audit")

\* the retrieval call and the generation call both failed, and Audit still ran
C6_Witness ==
    /\ pc = "done"
    /\ executed = AllStages
    /\ retrieved_context = <<>>
    /\ confidence = ConfidenceDefault
    /\ response = ApologyText

\* C7: process() always comes to return, and returns a response that is a
\* string, whichever stages failed inside.
C7_AlwaysReturnsResponse ==
    /\ Returns
    /\ [](pc = "done" => response # None)

\* sanitization, retrieval, generation, validation and audit all failed
C7_Witness ==
    /\ pc = "done"
    /\ enable_guardrails
    /\ return_traces
    /\ check_prompt_injection(query)
    /\ sanitized_query = query
    /\ guardrail_violations = <<>>
    /\ retrieved_context = <<>>
    /\ confidence = ConfidenceDefault
    /\ response = ApologyText
    /\ traces = <<[agent_name |-> "risk_evaluator", status |-> "success"]>>

(***************************************************************************)
(* The guardrails functions on their own                                   *)
(***************************************************************************)
\* no request is being processed
NoRequest ==
    /\ pc = "idle"
    /\ query = <<>>
    /\ enable_guardrails = TRUE
    /\ return_traces = FALSE
    /\ sanitized_query = None
    /\ guardrail_violations = <<>>
    /\ retrieved_context = None
    /\ citations = <<>>
    /\ response = None
    /\ risk_level = LOW
    /\ confidence = ConfidenceDefault
    /\ traces = <<>>
    /\ executed = <<>>
    /\ gate_risk = None
    /\ validator_report = <<>>
    /\ initial_risk = LOW
    /\ external = NoExternal

\* the longest violation list calculate_risk_level is called on
MaxViolations == 3

\* violations of every severity, as sanitize_input and validate_output build them
SampleViolations ==
    {GuardrailViolation("pii", HIGH, <<"ssn">>, Chars("123-*******")),
     GuardrailViolation("banned_topic", MEDIUM, <<"tax evasion">>, None),
     GuardrailViolation("toxic", LOW, <<>>, None),
     GuardrailViolation("pii", CRITICAL, <<>>, Chars("[PII DETECTED IN OUTPUT]")),
     GuardrailViolation("hallucination", MEDIUM, <<>>, None)}

ViolationLists == UNION {[1..n -> SampleViolations] : n \in 0..MaxViolations}

InitRisk ==
    /\ NoRequest
    /\ faiss_index = NoneObject
    /\ NoIndexCall
    /\ fn_in \in ViolationLists
    /\ fn_out = [called |-> FALSE]

\* risk = guardrails.calculate_risk_level(violations)
CallCalculateRiskLevel ==
    /\ pc = "idle"
    /\ ~fn_out.called
    /\ fn_out' = [called |-> TRUE, value |-> calculate_risk_level(fn_in)]
    /\ UNCHANGED <<pipeline_vars, fn_in, index_vars>>

NextRisk == CallCalculateRiskLevel

SpecRisk == InitRisk /\ [][NextRisk]_vars

\* the longest text sanitize_input is called on, in words
MaxTextWords == 3

\* the pieces a text is made of
TextWords ==
    {"123-45-6789", " ", "x", "-", "ignore previous instructions", "tax evasion",
     "violence"}

RECURSIVE Concat(_)
\* ''.join(words)
Concat(words) ==
    IF words = <<>> THEN <<>> ELSE Chars(Head(words)) \o Concat(Tail(words))

Texts == UNION {{Concat(ws) : ws \in [1..n -> TextWords]} : n \in 0..MaxTextWords}

InitSanitize ==
    /\ NoRequest
    /\ faiss_index = NoneObject
    /\ NoIndexCall
    /\ fn_in \in Texts
    /\ fn_out = [called |-> FALSE]

\* sanitized, violations = guardrails.sanitize_input(text)
CallSanitizeInput ==
    /\ pc = "idle"
    /\ ~fn_out.called
    /\ fn_out' = [called |-> TRUE, value |-> sanitize_input(fn_in)]
    /\ UNCHANGED <<pipeline_vars, fn_in, index_vars>>

NextSanitize == CallSanitizeInput

SpecSanitize == InitSanitize /\ [][NextSanitize]_vars

(***************************************************************************)
(* Properties of the guardrails functions                                  *)
(***************************************************************************)
RECURSIVE KeepFrom(_, _, _)
\* the sub-list of the entries whose index is in keep
KeepFrom(list, keep, i) ==
    IF i > Len(list) THEN <<>>
    ELSE (IF i \in keep THEN <<list[i]>> ELSE <<>>) \o KeepFrom(list, keep, i + 1)

\* C8: calculate_risk_level returns the greatest severity of the list in the
\* order LOW < MEDIUM < HIGH < CRITICAL, LOW for the empty list, and no
\* sub-list of the list gets a greater level than the list.
C8_MaxSeverityMonotonic ==
    fn_out.called
    => /\ fn_in = <<>> => fn_out.value = LOW
       /\ fn_in # <<>>
             => /\ \E i \in 1..Len(fn_in) : fn_in[i].severity = fn_out.value
                /\ \A i \in 1..Len(fn_in) :
                       Rank(fn_in[i].severity) <= Rank(fn_out.value)
       /\ \A keep \in SUBSET (1..Len(fn_in)) :
              Rank(calculate_risk_level(KeepFrom(fn_in, keep, 1))) <= Rank(fn_out.value)

\* a list of mixed severities whose greatest one is not the first
C8_Witness ==
    /\ fn_out.called
    /\ Len(fn_in) >= 3
    /\ fn_in[1].severity = MEDIUM
    /\ fn_in[2].severity = HIGH
    /\ fn_in[3].severity = LOW
    /\ fn_out.value = HIGH

NumberOf(violations, type, severity) ==
    Cardinality({i \in 1..Len(violations) :
                    violations[i].type = type /\ violations[i].severity = severity})

\* how many of the four categories match the text
CategoriesMatching(text) ==
    (IF check_pii(text) # <<>> THEN 1 ELSE 0)
    + (IF check_banned_topics(text) # <<>> THEN 1 ELSE 0)
    + (IF check_toxicity(text) THEN 1 ELSE 0)
    + (IF check_prompt_injection(text) THEN 1 ELSE 0)

\* C9: for a text that matches several categories, sanitize_input returns the
\* violation of every matching category: pii/HIGH for each PII match, one
\* banned_topic/MEDIUM, toxic/HIGH and prompt_injection/CRITICAL.
C9_EveryCategoryReported ==
    (fn_out.called /\ CategoriesMatching(fn_in) >= 2)
    => /\ ~fn_out.value.raised
       /\ NumberOf(fn_out.value.violations, "pii", HIGH) = Len(check_pii(fn_in))
       /\ NumberOf(fn_out.value.violations, "banned_topic", MEDIUM)
              = (IF check_banned_topics(fn_in) # <<>> THEN 1 ELSE 0)
       /\ check_toxicity(fn_in) => HasViolation(fn_out.value.violations, "toxic", HIGH)
       /\ check_prompt_injection(fn_in)
             => HasViolation(fn_out.value.violations, "prompt_injection", CRITICAL)

\* the SSN-shaped matches of the text
SsnMatches(text) == FindIter(ssn_pattern, text, 0)

\* the first 4 characters, then '*' for each remaining character
Masked(matched) == Prefix(matched, 4) \o Stars(Len(matched) - 4)

\* C10: Scenario B. For a text with an SSN-shaped match, sanitize_input returns
\* a pii/HIGH violation and a text in which every occurrence of the match is
\* its first 4 characters followed by '*' for each remaining character, the
\* match itself being absent.
C10_SsnMasked ==
    (fn_out.called /\ SsnMatches(fn_in) # <<>>)
    => /\ ~fn_out.value.raised
       /\ HasViolation(fn_out.value.violations, "pii", HIGH)
       /\ \A k \in 1..Len(SsnMatches(fn_in)) :
             LET matched == SsnMatches(fn_in)[k]
             IN  /\ Len(Masked(matched)) = Len(matched)
                 /\ \A i \in 1..Len(fn_in) :
                       OccursAt(fn_in, matched, i)
                       => OccursAt(fn_out.value.sanitized, Masked(matched), i)
                 /\ ~Contains(fn_out.value.sanitized, matched)

(***************************************************************************)
(* The retrieval service functions on their own                            *)
(***************************************************************************)
\* values of max_context_length: none, less than one passage, one passage,
\* two passages, two passages with their separator, and the default
ContextLengths == {0, 20, 21, 42, 47, MaxContextLengthDefault}

InitContext ==
    /\ NoRequest
    /\ faiss_index = NoneObject
    /\ NoIndexCall
    /\ fn_in \in [service_index : ServiceIndexes, max_context_length : ContextLengths]
    /\ fn_out = [called |-> FALSE]

\* rag_result = retrieval_service.get_context_for_llm(query, k=5, max_context_length=n)
CallGetContextForLlm ==
    /\ pc = "idle"
    /\ ~fn_out.called
    /\ fn_out' = [called |-> TRUE,
                  value |-> get_context_for_llm(fn_in.service_index, KDefault,
                                                fn_in.max_context_length)]
    /\ UNCHANGED <<pipeline_vars, fn_in, index_vars>>

NextContext == CallGetContextForLlm

SpecContext == InitContext /\ [][NextContext]_vars

\* what retrieve returned inside the call under study
RetrievedForContext == retrieve(fn_in.service_index, KDefault, ScoreThresholdDefault)

\* C11: the context get_context_for_llm returns never has more than
\* max_context_length characters, source markers and separators included.
C11_ContextWithinLength ==
    (fn_out.called /\ ~fn_out.value.raised)
    => Len(fn_out.value.context) <= fn_in.max_context_length

\* C12: the context get_context_for_llm returns is empty exactly when retrieve
\* returned no result.
C12_EmptyIffNothingRetrieved ==
    (fn_out.called /\ ~fn_out.value.raised)
    => (fn_out.value.context = <<>> <=> RetrievedForContext = <<>>)

\* C20: get_context_for_llm never raises to its caller: every error while it
\* runs is turned into the result with empty context, citations and sources.
C20_NeverRaises ==
    fn_out.called => ~fn_out.value.raised

(***************************************************************************)
(* FAISSIndex.search on its own                                            *)
(***************************************************************************)
MaxK == 3

\* values of score_threshold: none, the default of retrieve, the citation
\* threshold
ScoreThresholds == {0, ScoreThresholdDefault, MinCitationScore}

InitSearch ==
    /\ NoRequest
    /\ faiss_index = NoneObject
    /\ NoIndexCall
    /\ fn_in \in [self : ServiceIndexes \ {NoneObject},
                  k : 1..MaxK,
                  score_threshold : ScoreThresholds]
    /\ fn_out = [called |-> FALSE]

\* results = self.index.search(query=query, k=k, score_threshold=score_threshold)
CallSearch ==
    /\ pc = "idle"
    /\ ~fn_out.called
    /\ fn_out' = [called |-> TRUE,
                  value |-> search(fn_in.self, fn_in.k, fn_in.score_threshold)]
    /\ UNCHANGED <<pipeline_vars, fn_in, index_vars>>

NextSearch == CallSearch

SpecSearch == InitSearch /\ [][NextSearch]_vars

\* C13: search(q, k, t) returns no result with a score below t, at most k
\* results, in order of non-increasing score; with the vector store absent or
\* holding no vector it returns the empty list.
C13_SearchContract ==
    /\ (fn_out.called /\ ~fn_out.value.raised)
       => LET results == fn_out.value.results
          IN  /\ \A n \in 1..Len(results) : results[n].score >= fn_in.score_threshold
              /\ Len(results) <= fn_in.k
              /\ \A n \in 1..(Len(results) - 1) : results[n].score >= results[n + 1].score
    /\ (fn_out.called /\ (fn_in.self.index = NoneObject \/ Ntotal(fn_in.self.index) = 0))
       => (~fn_out.value.raised /\ fn_out.value.results = <<>>)

\* two results come back, in the order opposite to the stored one
C13_Witness ==
    /\ fn_out.called
    /\ fn_in.self.index # NoneObject
    /\ fn_in.score_threshold = ScoreThresholdDefault
    /\ ~fn_out.value.raised
    /\ Len(fn_out.value.results) = 2
    /\ fn_out.value.results[1].score > fn_out.value.results[2].score
    /\ fn_in.self.index.vectors[1] < fn_in.self.index.vectors[2]

(***************************************************************************)
(* core/faiss_index.py: the methods that change a FAISSIndex object and    *)
(* the files of its index_path                                             *)
(***************************************************************************)
\* FAISSIndex.create_index: the object afterwards, or raised (ValueError) with
\* the object as it was
create_index(self, embeddings, chunks, documents) ==
    IF Len(embeddings) = 0
    THEN [raised |-> TRUE, self |-> self]
    ELSE [raised |-> FALSE,
          self |-> FAISSIndex(IndexFlatIP(embeddings), chunks, documents)]

\* FAISSIndex.load: the value returned and the object afterwards; a file that
\* does not exist is skipped, and the first file that cannot be read ends the
\* call with what was assigned before it
load(self, files) ==
    IF files.index # Absent /\ ReadIndexRaises(files.index)
    THEN [returned |-> FALSE, self |-> self]
    ELSE LET with_index == IF files.index = Absent THEN self
                           ELSE [self EXCEPT !.index = ReadBack(files.index)]
         IN  IF files.chunks # Absent /\ JsonLoadRaises(files.chunks)
             THEN [returned |-> FALSE, self |-> with_index]
             ELSE LET with_chunks ==
                          IF files.chunks = Absent THEN with_index
                          ELSE [with_index EXCEPT !.chunks = ReadBack(files.chunks)]
                  IN  IF files.documents # Absent /\ JsonLoadRaises(files.documents)
                      THEN [returned |-> FALSE, self |-> with_chunks]
                      ELSE [returned |-> TRUE,
                            self |-> IF files.documents = Absent THEN with_chunks
                                     ELSE [with_chunks EXCEPT
                                              !.documents = ReadBack(files.documents)]]

\* the places where a write of save can fail (an OSError of open or write)
SaveFailures == {"none", "faiss.index", "chunks.json", "documents.json"}

\* FAISSIndex.save when the write of chunks.json does nothing
save_without_chunks(self, files, failing) ==
    LET index_file == IF self.index = NoneObject THEN files.index
                      ELSE WriteIndex(self.index)
    IN  IF failing = "faiss.index"
        THEN [raised |-> TRUE, files |-> Disk(Malformed, files.chunks, files.documents)]
        ELSE IF failing = "chunks.json"
        THEN [raised |-> TRUE, files |-> Disk(index_file, Malformed, files.documents)]
        ELSE IF failing = "documents.json"
        THEN [raised |-> TRUE, files |-> Disk(index_file, files.chunks, Malformed)]
        ELSE [raised |-> FALSE,
              files |-> Disk(index_file, files.chunks, JsonDump(self.documents))]

\* FAISSIndex.save: the files afterwards, and whether the exception of the
\* failing write was re-raised; the file a write fails on is left truncated
save(self, files, failing) ==
    LET index_file == IF self.index = NoneObject THEN files.index
                      ELSE WriteIndex(self.index)
    IN  IF failing = "faiss.index"
        THEN [raised |-> TRUE, files |-> Disk(Malformed, files.chunks, files.documents)]
        ELSE IF failing = "chunks.json"
        THEN [raised |-> TRUE, files |-> Disk(index_file, Malformed, files.documents)]
        ELSE IF failing = "documents.json"
        THEN [raised |-> TRUE,
              files |-> Disk(index_file, JsonDump(self.chunks), Malformed)]
        ELSE [raised |-> FALSE,
              files |-> Disk(index_file, JsonDump(self.chunks), JsonDump(self.documents))]

\* FAISSIndex.clear
clear(self) == NewFAISSIndex

\* the most method calls on one index_path
MaxCalls == 4

\* a second chunk of the document
SecondChunk ==
    [content |-> Chars("Note."),
     metadata |-> [id |-> "d1", chunk_id |-> "d1_chunk_1", chunk_index |-> 1]]

\* the embeddings handed to create_index, as the score each gets for the query
EmbeddingArrays == {<<>>, <<70>>, <<70, 55>>}

\* the chunk lists handed to create_index
ChunkLists == UNION {[1..n -> {PolicyChunk, SecondChunk}] : n \in 0..MaxVectors}

\* the record of a method call
Call(op, status, before, args) ==
    [op |-> op, status |-> status, calls |-> last_call.calls + 1,
     before |-> before, args |-> args]

NoArgs == [embeddings |-> <<>>, chunks |-> <<>>]

InitIndex ==
    /\ NoRequest
    /\ fn_in = [none |-> TRUE]
    /\ fn_out = [called |-> FALSE]
    /\ faiss_index = NewFAISSIndex
    /\ NoIndexCall

\* index.create_index(embeddings, chunks, documents)
CreateIndex ==
    /\ last_call.calls < MaxCalls
    /\ \E embeddings \in EmbeddingArrays, chunks \in ChunkLists :
          \E result \in {create_index(faiss_index, embeddings, chunks, SampleDocuments)} :
             /\ faiss_index' = result.self
             /\ last_call' = Call("create_index",
                                  IF result.raised THEN "raised" ELSE "returned",
                                  faiss_index,
                                  [embeddings |-> embeddings, chunks |-> chunks])
    /\ UNCHANGED <<pipeline_vars, fn_in, fn_out, disk, saved, admin_pc, reader_pc, observed>>

\* index.load()
Load ==
    /\ last_call.calls < MaxCalls
    /\ \E result \in {load(faiss_index, disk)} :
          /\ faiss_index' = result.self
          /\ last_call' = Call("load",
                               IF result.returned THEN "returned True"
                               ELSE "returned False",
                               faiss_index, NoArgs)
    /\ UNCHANGED <<pipeline_vars, fn_in, fn_out, disk, saved, admin_pc, reader_pc, observed>>

\* index.save()
Save ==
    /\ last_call.calls < MaxCalls
    /\ \E failing \in SaveFailures :
          /\ failing = "faiss.index" => faiss_index.index # NoneObject
          /\ \E result \in {save(faiss_index, disk, failing)} :
                /\ disk' = result.files
                /\ saved' = IF result.raised THEN NoneObject ELSE faiss_index
                /\ last_call' = Call("save",
                                     IF result.raised THEN "raised" ELSE "returned",
                                     faiss_index, NoArgs)
    /\ UNCHANGED <<pipeline_vars, fn_in, fn_out, faiss_index, admin_pc, reader_pc, observed>>

\* index.clear()
Clear ==
    /\ last_call.calls < MaxCalls
    /\ faiss_index' = clear(faiss_index)
    /\ last_call' = Call("clear", "returned", faiss_index, NoArgs)
    /\ UNCHANGED <<pipeline_vars, fn_in, fn_out, disk, saved, admin_pc, reader_pc, observed>>

\* faiss_index = FAISSIndex(index_path=...): a new object on the same index_path
Construct ==
    /\ last_call.calls < MaxCalls
    /\ faiss_index' = NewFAISSIndex
    /\ last_call' = Call("__init__", "returned", faiss_index, NoArgs)
    /\ UNCHANGED <<pipeline_vars, fn_in, fn_out, disk, saved, admin_pc, reader_pc, observed>>

\* the processed data save_processed_data wrote: one embedding per chunk, or
\* no file at all
ProcessedData ==
    {[exists |-> FALSE, embeddings |-> <<>>, chunks |-> <<>>]}
    \cup {data \in [exists : {TRUE}, embeddings : EmbeddingArrays, chunks : ChunkLists] :
             Len(data.embeddings) = Len(data.chunks)}

\* index.rebuild_from_processed(processed_dir): np.load and json.load of the
\* processed files, create_index, save
RebuildFromProcessed ==
    /\ last_call.calls < MaxCalls
    /\ \E processed \in ProcessedData, failing \in SaveFailures :
          \E created \in {create_index(faiss_index, processed.embeddings,
                                       processed.chunks, SampleDocuments)} :
             IF ~processed.exists \/ created.raised
             THEN /\ failing = "none"
                  /\ last_call' = Call("rebuild_from_processed", "raised",
                                       faiss_index, NoArgs)
                  /\ UNCHANGED <<faiss_index, disk, saved>>
             ELSE \E result \in {save(created.self, disk, failing)} :
                     /\ faiss_index' = created.self
                     /\ disk' = result.files
                     /\ saved' = IF result.raised THEN NoneObject ELSE created.self
                     /\ last_call' = Call("rebuild_from_processed",
                                          IF result.raised THEN "raised" ELSE "returned",
                                          faiss_index, NoArgs)
    /\ UNCHANGED <<pipeline_vars, fn_in, fn_out, admin_pc, reader_pc, observed>>

NextIndex ==
    \/ CreateIndex
    \/ Load
    \/ Save
    \/ Clear
    \/ Construct
    \/ RebuildFromProcessed

SpecIndex == InitIndex /\ [][NextIndex]_vars

\* C14: create_index called with no embedding, or with a number of embeddings
\* different from the number of chunks, raises and leaves the object as it was.
C14_CreateIndexRejects ==
    (/\ last_call.op = "create_index"
     /\ \/ Len(last_call.args.embeddings) = 0
        \/ Len(last_call.args.embeddings) # Len(last_call.args.chunks))
    => (last_call.status = "raised" /\ faiss_index = last_call.before)

\* C15: whenever the vector store of the object is present, it holds as many
\* vectors as the object holds chunks.
C15_VectorsMatchChunks ==
    faiss_index.index # NoneObject
    => Ntotal(faiss_index.index) = Len(faiss_index.chunks)

\* some file of index_path cannot be read back
SomeFileMalformed ==
    \E name \in DOMAIN disk : disk[name] = Malformed

\* C16: load() with a malformed file among faiss.index, chunks.json and
\* documents.json reports failure and leaves the object empty: no vector
\* store, no chunk, no document.
C16_LoadFailsEmpty ==
    (last_call.op = "load" /\ SomeFileMalformed)
    => (last_call.status = "returned False" /\ faiss_index = NewFAISSIndex)

\* the object holds at least one vector
NonEmpty(self) == self.index # NoneObject /\ Ntotal(self.index) > 0

\* load() has just run on a new object, on the files a save() of a non-empty
\* object wrote
LoadedWhatWasSaved ==
    /\ last_call.op = "load"
    /\ last_call.before = NewFAISSIndex
    /\ saved # NoneObject
    /\ NonEmpty(saved)

\* C17: save() of a non-empty index followed by load() into a new object on
\* the same index_path gives as many vectors, chunks and documents as the
\* original held, with the chunks in the same order.
C17_SaveLoadRoundTrip ==
    LoadedWhatWasSaved
    => /\ last_call.status = "returned True"
       /\ faiss_index.index # NoneObject
       /\ Ntotal(faiss_index.index) = Ntotal(saved.index)
       /\ Len(faiss_index.chunks) = Len(saved.chunks)
       /\ Cardinality(DOMAIN faiss_index.documents) = Cardinality(DOMAIN saved.documents)
       /\ faiss_index.chunks = saved.chunks

\* two different chunks went through the files and came back in their order
C17_Witness ==
    /\ LoadedWhatWasSaved
    /\ Len(saved.chunks) = 2
    /\ saved.chunks[1] # saved.chunks[2]
    /\ faiss_index.chunks = saved.chunks
    /\ Ntotal(faiss_index.index) = 2

(***************************************************************************)
(* A rebuild or refresh of the shared index beside a request's search, one *)
(* statement at a time                                                     *)
(***************************************************************************)
\* the index in service before the rebuild, complete and saved
OldIndex == FAISSIndex(IndexFlatIP(<<70>>), <<PolicyChunk>>, SampleDocuments)

\* the document metadata of the fresh data
FreshDocuments == [id \in {"d1"} |-> [name |-> Chars("b.md")]]

\* the fresh data: one embedding per chunk, at least one
FreshData ==
    {data \in [embeddings : EmbeddingArrays, chunks : ChunkLists] :
        Len(data.embeddings) = Len(data.chunks) /\ Len(data.embeddings) > 0}

\* the complete index made of the fresh data
NewIndex == FAISSIndex(IndexFlatIP(fn_in.embeddings), fn_in.chunks, FreshDocuments)

\* the request has not called retrieve
NotReading ==
    [self |-> "none", object |-> NoneObject, index |-> NoneObject,
     chunks |-> <<>>, documents |-> EmptyDict, outcome |-> "none"]

\* rebuild_from_processed reads the fresh data from processed_dir;
\* refresh_index reads it from index_path, where it has been saved
InitRebuild ==
    /\ NoRequest
    /\ fn_in \in [op : {"rebuild_from_processed", "refresh_index"},
                  embeddings : EmbeddingArrays, chunks : ChunkLists]
    /\ [embeddings |-> fn_in.embeddings, chunks |-> fn_in.chunks] \in FreshData
    /\ fn_out = [called |-> FALSE]
    /\ faiss_index = OldIndex
    /\ saved = IF fn_in.op = "refresh_index" THEN NewIndex ELSE OldIndex
    /\ disk = save(saved, EmptyDisk, "none").files
    /\ last_call = NoCall
    /\ admin_pc = "idle"
    /\ reader_pc = "idle"
    /\ observed = NotReading

\* the FAISSIndex object the running search was called on: the one
\* RetrievalService.index refers to, or the one it referred to at the call
Self == IF observed.self = "detached" THEN observed.object ELSE faiss_index

\* rebuild_from_processed lines 262-270: np.load and json.load of the fresh data
RebuildReadProcessed ==
    /\ admin_pc = "idle"
    /\ fn_in.op = "rebuild_from_processed"
    /\ admin_pc' = "create_index:70"
    /\ UNCHANGED <<pipeline_vars, fn_in, fn_out, faiss_index, disk, last_call, saved,
                   reader_pc, observed>>

\* create_index line 70: self.index = faiss.IndexFlatIP(self.embedding_dim)
RebuildNewVectorStore ==
    /\ admin_pc = "create_index:70"
    /\ faiss_index' = [faiss_index EXCEPT !.index = IndexFlatIP(<<>>)]
    /\ admin_pc' = "create_index:73"
    /\ UNCHANGED <<pipeline_vars, fn_in, fn_out, disk, last_call, saved, reader_pc, observed>>

\* create_index line 73: self.index.add(embeddings)
RebuildAddVectors ==
    /\ admin_pc = "create_index:73"
    /\ faiss_index' = [faiss_index EXCEPT !.index = IndexFlatIP(fn_in.embeddings)]
    /\ admin_pc' = "create_index:76"
    /\ UNCHANGED <<pipeline_vars, fn_in, fn_out, disk, last_call, saved, reader_pc, observed>>

\* create_index line 76: self.chunks = chunks
RebuildSetChunks ==
    /\ admin_pc = "create_index:76"
    /\ faiss_index' = [faiss_index EXCEPT !.chunks = fn_in.chunks]
    /\ admin_pc' = "create_index:77"
    /\ UNCHANGED <<pipeline_vars, fn_in, fn_out, disk, last_call, saved, reader_pc, observed>>

\* create_index line 77: self.documents = documents
RebuildSetDocuments ==
    /\ admin_pc = "create_index:77"
    /\ faiss_index' = [faiss_index EXCEPT !.documents = FreshDocuments]
    /\ admin_pc' = "save"
    /\ UNCHANGED <<pipeline_vars, fn_in, fn_out, disk, last_call, saved, reader_pc, observed>>

\* rebuild_from_processed line 276: self.save()
RebuildSave ==
    /\ admin_pc = "save"
    /\ disk' = save(faiss_index, disk, "none").files
    /\ saved' = faiss_index
    /\ last_call' = Call("rebuild_from_processed", "returned", OldIndex, NoArgs)
    /\ admin_pc' = "done"
    /\ UNCHANGED <<pipeline_vars, fn_in, fn_out, faiss_index, reader_pc, observed>>

\* _initialize_index lines 35-38: self.index = FAISSIndex(...); a search that
\* is running keeps the object it was called on
RefreshNewObject ==
    /\ admin_pc = "idle"
    /\ fn_in.op = "refresh_index"
    /\ faiss_index' = NewFAISSIndex
    /\ observed' = IF observed.self = "shared"
                   THEN [observed EXCEPT !.self = "detached", !.object = faiss_index]
                   ELSE observed
    /\ admin_pc' = "load:88"
    /\ UNCHANGED <<pipeline_vars, fn_in, fn_out, disk, last_call, saved, reader_pc>>

\* load line 88: self.index = faiss.read_index(...)
RefreshLoadVectorStore ==
    /\ admin_pc = "load:88"
    /\ faiss_index' = [faiss_index EXCEPT !.index = ReadBack(disk.index)]
    /\ admin_pc' = "load:94"
    /\ UNCHANGED <<pipeline_vars, fn_in, fn_out, disk, last_call, saved, reader_pc, observed>>

\* load line 94: self.chunks = json.load(f)
RefreshLoadChunks ==
    /\ admin_pc = "load:94"
    /\ faiss_index' = [faiss_index EXCEPT !.chunks = ReadBack(disk.chunks)]
    /\ admin_pc' = "load:100"
    /\ UNCHANGED <<pipeline_vars, fn_in, fn_out, disk, last_call, saved, reader_pc, observed>>

\* load line 100: self.documents = json.load(f); load returns True
RefreshLoadDocuments ==
    /\ admin_pc = "load:100"
    /\ faiss_index' = [faiss_index EXCEPT !.documents = ReadBack(disk.documents)]
    /\ last_call' = Call("refresh_index", "returned True", OldIndex, NoArgs)
    /\ admin_pc' = "done"
    /\ UNCHANGED <<pipeline_vars, fn_in, fn_out, disk, saved, reader_pc, observed>>

\* retrieve lines 76-93: self.index is not None; self.index.search(...) is called
ReaderCallsSearch ==
    /\ reader_pc = "idle"
    /\ observed' = [observed EXCEPT !.self = "shared"]
    /\ reader_pc' = "search:150"
    /\ UNCHANGED <<pipeline_vars, fn_in, fn_out, faiss_index, disk, last_call, saved, admin_pc>>

\* search line 150: if self.index is None or self.index.ntotal == 0: return []
ReaderTestsVectorStore ==
    /\ reader_pc = "search:150"
    /\ IF Self.index = NoneObject \/ Ntotal(Self.index) = 0
       THEN /\ observed' = [observed EXCEPT !.index = Self.index, !.outcome = "returned"]
            /\ reader_pc' = "done"
       ELSE /\ reader_pc' = "search:161"
            /\ UNCHANGED observed
    /\ UNCHANGED <<pipeline_vars, fn_in, fn_out, faiss_index, disk, last_call, saved, admin_pc>>

\* search line 161: self.index.search(query_embedding, min(k, self.index.ntotal));
\* a vector store emptied since line 150 gives no hit
ReaderSearchesVectors ==
    /\ reader_pc = "search:161"
    /\ observed' = [observed EXCEPT !.index = Self.index,
                                    !.outcome = IF Ntotal(Self.index) = 0
                                                THEN "returned" ELSE "none"]
    /\ reader_pc' = IF Ntotal(Self.index) = 0 THEN "done" ELSE "search:172"
    /\ UNCHANGED <<pipeline_vars, fn_in, fn_out, faiss_index, disk, last_call, saved, admin_pc>>

\* search line 172: chunk = self.chunks[idx], IndexError when a hit has no chunk
ReaderReadsChunks ==
    /\ reader_pc = "search:172"
    /\ IF Ntotal(observed.index) > Len(Self.chunks)
       THEN /\ observed' = [observed EXCEPT !.chunks = Self.chunks, !.outcome = "raised"]
            /\ reader_pc' = "done"
       ELSE /\ observed' = [observed EXCEPT !.chunks = Self.chunks]
            /\ reader_pc' = "search:176"
    /\ UNCHANGED <<pipeline_vars, fn_in, fn_out, faiss_index, disk, last_call, saved, admin_pc>>

\* search lines 176-193: doc_metadata = self.documents.get(doc_id, {}); return results
ReaderReadsDocuments ==
    /\ reader_pc = "search:176"
    /\ observed' = [observed EXCEPT !.documents = Self.documents, !.outcome = "returned"]
    /\ reader_pc' = "done"
    /\ UNCHANGED <<pipeline_vars, fn_in, fn_out, faiss_index, disk, last_call, saved, admin_pc>>

NextRebuild ==
    \/ RebuildReadProcessed
    \/ RebuildNewVectorStore
    \/ RebuildAddVectors
    \/ RebuildSetChunks
    \/ RebuildSetDocuments
    \/ RebuildSave
    \/ RefreshNewObject
    \/ RefreshLoadVectorStore
    \/ RefreshLoadChunks
    \/ RefreshLoadDocuments
    \/ ReaderCallsSearch
    \/ ReaderTestsVectorStore
    \/ ReaderSearchesVectors
    \/ ReaderReadsChunks
    \/ ReaderReadsDocuments

SpecRebuild == InitRebuild /\ [][NextRebuild]_vars

\* the vector store, chunks and documents the search has worked with
ObservedIndex == FAISSIndex(observed.index, observed.chunks, observed.documents)

\* C18: a search that runs beside a rebuild or a refresh works with the
\* complete old index or with the complete new one: never a mixture of the
\* two, never a vector store that is missing or still empty.
C18_AtomicRebuild ==
    reader_pc = "done" => ObservedIndex \in {OldIndex, NewIndex}

\* RetrievalService.index is None, or an object without vector store or
\* with an empty one
IndexUninitializedOrEmpty ==
    \/ faiss_index = NoneObject
    \/ faiss_index.index = NoneObject
    \/ Ntotal(faiss_index.index) = 0

\* the Retrieve stage has just ended
RetrieveEnded == pc = "evaluate"

\* C19: Scenario C. With the index uninitialized or empty, retrieve returns
\* the empty sequence and get_context_for_llm does not raise; the Retrieve
\* stage ends with retrieved_context "", confidence 0.3 and no citation, and
\* its trace, when traces are kept, records success.
C19_ScenarioC ==
    (IndexUninitializedOrEmpty /\ RetrieveEnded)
    => /\ retrieve(faiss_index, KDefault, ScoreThresholdDefault) = <<>>
       /\ ~get_context_for_llm(faiss_index, KDefault, MaxContextLengthDefault).raised
       /\ retrieved_context = <<>>
       /\ confidence = ConfidenceNoContext
       /\ citations = <<>>
       /\ return_traces => traces[Len(traces)] = [agent_name |-> "retriever",
                                                  status |-> "success"]

\* a request has gone through Retrieve on a loaded index that holds no vector
C19_Witness ==
    /\ RetrieveEnded
    /\ faiss_index # NoneObject
    /\ faiss_index.index # NoneObject
    /\ Ntotal(faiss_index.index) = 0
    /\ return_traces
    /\ retrieved_context = <<>>
    /\ confidence = ConfidenceNoContext

(***************************************************************************)
(* The pipeline: confidence, traces, refusals and the violation list       *)
(***************************************************************************)
\* C22: on leaving the Retrieve stage, confidence is 0.85 when
\* retrieved_context is non-empty and 0.3 when it is empty, also when the
\* retrieval call failed inside the stage.
C22_ConfidenceAfterRetrieve ==
    RetrieveEnded
    => confidence = IF Truthy(retrieved_context)
                    THEN ConfidenceWithContext
                    ELSE ConfidenceNoContext

\* C25: with tracing requested, the trace list holds one entry for each stage
\* executed so far, the failed ones included, with the stage's name and in
\* the order of execution.
C25_OneTracePerStage ==
    return_traces
    => /\ Len(traces) = Len(executed)
       /\ \A i \in 1..Len(traces) : traces[i].agent_name = executed[i]

\* C27: at the end of process(), a final risk_level of CRITICAL comes with
\* one of the two fixed refusal texts as the response.
C27_CriticalMeansRefusal ==
    (pc = "done" /\ risk_level = CRITICAL) => response \in {RefusalText, BlockedText}

\* Validate has replaced a generated text holding PII by its refusal
C27_Witness ==
    /\ pc = "done"
    /\ risk_level = CRITICAL
    /\ response = BlockedText
    /\ HasCritical(validator_report)
    /\ EndsWith(executed, <<"generator", "validator", "audit">>)

\* C28: at the end of a request with guardrails enabled, the violation list
\* holds every violation sanitize_input returned and every violation
\* validate_output returned, the non-critical ones included.
C28_AllViolationsKept ==
    (pc = "done" /\ enable_guardrails)
    => LET detected == sanitize_input_of[query].violations \o validator_report
       IN  \A i \in 1..Len(detected) :
              \E j \in 1..Len(guardrail_violations) : guardrail_violations[j] = detected[i]

\* check_pii, tabulated over the queries
check_pii_of == [text \in Queries |-> check_pii(text)]

\* the text sanitize_input makes of a query by replacing every PII match
RedactedOf == [text \in Queries |-> ApplyRedactions(text, check_pii_of[text], 1)]

\* RetrieverAgent or GeneratorAgent has been given a query
QueryHandedOn ==
    \E i \in 1..Len(executed) : executed[i] \in {"retriever", "generator"}

\* C26: with guardrails enabled and a PII match in the query, the query
\* handed to retrieval and to generation is the redacted text of
\* sanitize_input, never the raw query, whatever else the query triggers.
C26_PiiNeverForwarded ==
    (enable_guardrails /\ check_pii_of[query] # <<>> /\ QueryHandedOn)
    => /\ QueryForAgents = RedactedOf[query]
       /\ QueryForAgents # query

\* FAISSIndex.get_stats
get_stats(self) ==
    IF self.index = NoneObject
    THEN [status |-> "not_initialized"]
    ELSE [total_vectors |-> Ntotal(self.index),
          total_chunks |-> Len(self.chunks),
          total_documents |-> Cardinality(DOMAIN self.documents)]

\* load() has just run on an empty object, after the save() of a cleared
\* object on an index_path where an index had been saved before
LoadedAfterClearAndSave ==
    /\ last_call.op = "load"
    /\ last_call.before = NewFAISSIndex
    /\ saved = NewFAISSIndex
    /\ disk.index.state = "written"

\* C30: clear() of a saved non-empty index, then save() and load() on the same
\* index_path, leave the object empty: get_stats reports not_initialized and
\* no vector, chunk or document of the earlier index is back.
C30_ClearSaveLoadStaysEmpty ==
    LoadedAfterClearAndSave
    => /\ get_stats(faiss_index) = [status |-> "not_initialized"]
       /\ faiss_index = NewFAISSIndex

(***************************************************************************)
(* RetrievalService.retrieve with a document filter                        *)
(***************************************************************************)
\* FAISSIndex.search_with_filter with filter_dict = {"document_name": name}:
\* the first k of the k * 3 results of search, called with its own default
\* threshold, that belong to the document
search_with_filter(self, document_name, k) ==
    LET found == search(self, k * 3, SearchThresholdDefault)
        filtered == SelectSeq(found.results,
                              LAMBDA result : result.metadata.document_name = document_name)
    IN  [raised |-> found.raised,
         results |-> SubSeq(filtered, 1, Min(k, Len(filtered)))]

\* RetrievalService.retrieve; filter_doc is None or a document name
retrieve_filter_doc(service_index, k, score_threshold, filter_doc) ==
    IF service_index = NoneObject THEN <<>>
    ELSE LET found == IF Truthy(filter_doc)
                      THEN search_with_filter(service_index, filter_doc, k)
                      ELSE search(service_index, k, score_threshold)
         IN  IF found.raised THEN <<>> ELSE found.results

\* most vectors of an index searched with a filter
MaxFilterVectors == 4

\* a chunk of a second document
OtherChunk ==
    [content |-> Chars("Memo."),
     metadata |-> [id |-> "d2", chunk_id |-> "d2_chunk_0", chunk_index |-> 0]]

\* indexes of two documents, one chunk per vector
FilterIndexes ==
    {NoneObject}
    \cup UNION {{FAISSIndex(IndexFlatIP(vectors), chunks, SampleDocuments) :
                    vectors \in [1..n -> {55, 70}],
                    chunks \in [1..n -> {PolicyChunk, OtherChunk}]} :
                n \in 0..MaxFilterVectors}

InitRetrieve ==
    /\ NoRequest
    /\ faiss_index = NoneObject
    /\ NoIndexCall
    /\ fn_in \in [service_index : FilterIndexes,
                  k : 1..2,
                  score_threshold : ScoreThresholds,
                  filter_doc : {None, Chars("a.md"), Chars("Unknown")}]
    /\ fn_out = [called |-> FALSE]

\* retrieval_service.retrieve(query, k, score_threshold, filter_doc)
CallRetrieve ==
    /\ pc = "idle"
    /\ ~fn_out.called
    /\ fn_out' = [called |-> TRUE,
                  value |-> retrieve_filter_doc(fn_in.service_index, fn_in.k,
                                                fn_in.score_threshold, fn_in.filter_doc)]
    /\ UNCHANGED <<pipeline_vars, fn_in, index_vars>>

NextRetrieve == CallRetrieve

SpecRetrieve == InitRetrieve /\ [][NextRetrieve]_vars

\* the k * 3 best hits of the index, whatever their score
TopCandidates == search(fn_in.service_index, fn_in.k * 3, 0).results

\* C29: retrieve returns at most k results, none with a score below the
\* score_threshold it was called with, with and without filter_doc; with
\* filter_doc every result belongs to that document and is one of the k * 3
\* best hits.
C29_RetrieveContract ==
    fn_out.called
    => LET results == fn_out.value
       IN  /\ Len(results) <= fn_in.k
           /\ \A n \in 1..Len(results) : results[n].score >= fn_in.score_threshold
           /\ Truthy(fn_in.filter_doc)
              => \A n \in 1..Len(results) :
                    /\ results[n].metadata.document_name = fn_in.filter_doc
                    /\ \E m \in 1..Len(TopCandidates) : TopCandidates[m] = results[n]

(***************************************************************************)
(* The citations of get_context_for_llm                                    *)
(***************************************************************************)
\* a chunk whose content is one character longer than an excerpt
LongChunk ==
    [content |-> [i \in 1..(ExcerptLength + 1) |-> "x"],
     metadata |-> [id |-> "d1", chunk_id |-> "d1_chunk_2", chunk_index |-> 2]]

\* most vectors of an index whose citations are studied
MaxCitedVectors == 3

\* indexes of short and long chunks, a chunk possibly stored more than once,
\* with scores on both sides of the citation threshold
CitationIndexes ==
    UNION {{FAISSIndex(IndexFlatIP(vectors), chunks, SampleDocuments) :
               vectors \in [1..n -> {55, 70}],
               chunks \in [1..n -> {PolicyChunk, LongChunk}]} :
           n \in 0..MaxCitedVectors}

\* the context holds one short passage, one long passage, or all of them
InitCitations ==
    /\ NoRequest
    /\ faiss_index = NoneObject
    /\ NoIndexCall
    /\ fn_in \in [service_index : CitationIndexes,
                  max_context_length : {21, 250, MaxContextLengthDefault}]
    /\ fn_out = [called |-> FALSE]

SpecCitations == InitCitations /\ [][NextContext]_vars

\* the results included in the context
IncludedDocs == UsedDocs(RetrievedForContext, fn_in.max_context_length, 0, 1)

\* the included result at position i is to be cited: its score reaches the
\* citation threshold and no earlier such result has its chunk_id
ToBeCited(i) ==
    /\ IncludedDocs[i].score >= MinCitationScore
    /\ \A j \in 1..(i - 1) :
          IncludedDocs[j].score >= MinCitationScore
          => IncludedDocs[j].metadata.chunk_id # IncludedDocs[i].metadata.chunk_id

\* the positions of the included results that are to be cited
CitedPositions == {i \in 1..Len(IncludedDocs) : ToBeCited(i)}

\* the n-th of these positions
CitedPosition(n) ==
    CHOOSE i \in CitedPositions : Cardinality({j \in CitedPositions : j <= i}) = n

\* C24: the citations of get_context_for_llm are those of the included
\* results with score >= 0.6, one per chunk_id (the first occurrence), in
\* result order, each with the content cut to 200 characters plus "..." when
\* it is longer.
C24_CitationsOfIncluded ==
    (fn_out.called /\ ~fn_out.value.raised)
    => LET found == fn_out.value.citations
       IN  /\ Len(found) = Cardinality(CitedPositions)
           /\ \A n \in 1..Len(found) :
                 LET doc == IncludedDocs[CitedPosition(n)]
                 IN  /\ found[n].source_id = doc.metadata.document_id
                     /\ found[n].document_name = doc.metadata.document_name
                     /\ found[n].page_number = doc.metadata.chunk_index
                     /\ found[n].relevance_score = doc.score
                     /\ found[n].excerpt =
                           IF Len(doc.content) > ExcerptLength
                           THEN SubSeq(doc.content, 1, ExcerptLength) \o <<".", ".", ".">>
                           ELSE doc.content

\* three results, the long chunk twice among them and one result left out of
\* the citations: two citations, the first with a cut excerpt
C24_Witness ==
    /\ fn_out.called
    /\ ~fn_out.value.raised
    /\ Len(RetrievedForContext) = 3
    /\ Len(IncludedDocs) = 3
    /\ Len(fn_out.value.citations) = 2
    /\ Len(fn_out.value.citations[1].excerpt) = ExcerptLength + 3
    /\ fn_out.value.citations[2].excerpt = PolicyChunk.content
    /\ IncludedDocs[1].metadata.chunk_id = IncludedDocs[2].metadata.chunk_id

(***************************************************************************)
(* The pipeline: a generation call that raises                             *)
(***************************************************************************)
\* the generation call of this request raised
GenerationRaised ==
    /\ external.generation # <<>>
    /\ external.generation[1].raised

\* C23: Generation failure containment. From the moment the generation call
\* raises inside Generate, with context or in the context-free fallback form,
\* the response is the fixed apology string, the pipeline is at Validate, at
\* Audit or has returned, never in an error, and it goes on to return with
\* Generate, Validate and Audit as its last three stages.
C23_GenerationFailureContained ==
    /\ [](GenerationRaised =>
             /\ response = ApologyText
             /\ pc \in {"validate", "audit", "done"}
             /\ pc = "done" => EndsWith(executed, <<"generator", "validator", "audit">>))
    /\ (GenerationRaised ~>
             (pc = "done" /\ EndsWith(executed, <<"generator", "validator", "audit">>)))

\* the generation call raised with context, the stages after it ran and the
\* request returned the apology
C23_Witness ==
    /\ GenerationRaised
    /\ Truthy(retrieved_context)
    /\ pc = "done"
    /\ response = ApologyText
    /\ EndsWith(executed, <<"generator", "validator", "audit">>)

\* the same in the context-free fallback form
C23_FallbackRaised ==
    /\ GenerationRaised
    /\ ~Truthy(retrieved_context)
    /\ pc = "done"
    /\ response = ApologyText

(***************************************************************************)
(* Tracing: the same request processed with and without return_traces      *)
(***************************************************************************)
\* what process() hands back besides the traces
Outcome ==
    [response |-> response,
     risk_level |-> risk_level,
     confidence |-> confidence,
     citations |-> citations,
     guardrail_violations |-> guardrail_violations]

\* a fresh AgentState for the first execution, which is the traced one
InitTracing ==
    /\ Init
    /\ return_traces

\* the first execution has returned: its outcome, what the external
\* capabilities did and its traces are kept, and a fresh AgentState with the
\* same query, guardrail setting and index and with tracing off is handed
\* to process()
RunAgain ==
    /\ pc = "done"
    /\ ~fn_out.called
    /\ fn_out' = [called |-> TRUE, value |-> Outcome]
    /\ fn_in' = <<external, traces>>
    /\ return_traces' = FALSE
    /\ pc' = "sanitize"
    /\ sanitized_query' = None
    /\ guardrail_violations' = <<>>
    /\ retrieved_context' = None
    /\ citations' = <<>>
    /\ response' = None
    /\ risk_level' = initial_risk
    /\ confidence' = ConfidenceDefault
    /\ traces' = <<>>
    /\ executed' = <<>>
    /\ gate_risk' = None
    /\ validator_report' = <<>>
    /\ external' = NoExternal
    /\ UNCHANGED <<query, enable_guardrails, initial_risk, index_vars>>

NextTracing ==
    \/ Next
    \/ RunAgain

SpecTracing == InitTracing /\ [][NextTracing]_vars

\* both executions have returned and the external capabilities did the same
\* in both
BothReturnedAlike ==
    /\ pc = "done"
    /\ fn_out.called
    /\ external = fn_in[1]

\* C21: Tracing is observation only. Two executions of process() on the same
\* query, guardrail setting and index in which the generation call and
\* validate_output behave the same, one with return_traces and one without,
\* end with the same response, risk level, confidence, citations and
\* violations; and while return_traces is off the trace list stays empty.
C21_TracingObservesOnly ==
    /\ ~return_traces => traces = <<>>
    /\ BothReturnedAlike => Outcome = fn_out.value

\* the traced execution recorded its stages, the untraced one ended with the
\* same generated answer and citations and no trace
C21_Witness ==
    /\ BothReturnedAlike
    /\ ~return_traces
    /\ traces = <<>>
    /\ Len(fn_in[2]) >= 5
    /\ Outcome = fn_out.value
    /\ citations # <<>>
    /\ external.generation # <<>>
    /\ ~external.generation[1].raised

====
